---- MODULE Spec2Model ----
(***************************************************************************)
(* The bytecode virtual machine of src/vm/vm_impl.rs: one machine          *)
(* (VirtualMachine) executing one chunk.  A step of the model is one       *)
(* iteration of the loop of VirtualMachine::interpret.                     *)
(*                                                                         *)
(* Number is an f64 in the source.  The model keeps Numbers as exact       *)
(* fractions num/den in lowest terms, so that subtraction, division and    *)
(* the comparisons are computed and not assumed; IEEE rounding, the        *)
(* infinities, NaN and the sign of zero are outside the model.             *)
(***************************************************************************)
EXTENDS Integers, Sequences, FiniteSets, TLC

VARIABLES
    code,       \* the chunk's instruction sequence (compiler.current_chunk())
    constants,  \* the chunk's constant pool
    pc,         \* VirtualMachine.pc
    stack,      \* VirtualMachine.stack
    globals,    \* VirtualMachine.globals: name -> Value, None when absent
    result,     \* what interpret has returned, "Running" while in the loop
    printed,    \* what println! has written to standard output
    executed,   \* history: the instruction dispatched by the last iteration
    before,     \* history: pc, stack and globals when that iteration began
    written,    \* history: per name, the value of the most recent successful
                \* DefineGlobal or SetGlobal on it, None before the first
    compiled,   \* what compiler.compile() has returned, "Pending" before it has
    machines    \* how many VirtualMachines have been constructed

vars == <<code, constants, pc, stack, globals, result, printed, executed, before,
          written, compiled, machines>>

----------------------------------------------------------------------------
(* Bounds of the model *)

\* longest chunk of the specification over the whole instruction set
MaxCode == 2
\* longest chunk of the specification of expression chunks
MaxExprCode == 3
\* longest chunk of the specification of local-variable chunks
MaxLocalCode == 4
\* longest chunk of the specification of control-flow chunks
MaxJumpCode == 3
\* longest chunk of the specification of global-variable chunks
MaxGlobalCode == 5
\* longest chunk of the specification of chunks with Return
MaxReturnCode == 4
\* longest chunk compile_and_run is given
MaxRunCode == 3
\* longest chunk of one input of a session
MaxReplCode == 2
\* most machines created one after the other in a session
MaxMachines == 2
\* longest chunk of the specification of chunks without Loop
MaxForwardCode == 3
\* longest chunk run on a machine that starts with globals
MaxFrameCode == 2
\* longest chunk of the specification of storing instructions
MaxStoreCode == 4
\* largest slot operand of GetLocal / SetLocal
MaxSlot == 2
\* largest offset operand of JumpIfFalse / Jump / Loop
MaxOffset == 2
\* pushes are followed up to this stack height
MaxStack == 4
\* numerators and denominators of Numbers are followed up to this size
MaxNum == 4
\* Strings are followed up to this length
MaxStrLen == 2

\* usize arithmetic wraps modulo 2^64 in a build without overflow checks; the
\* model scales the width down to 16 bits
UsizeModulus == 65536

----------------------------------------------------------------------------
(* Value: Number | Boolean | String | Null, and Option::None *)

None == [type |-> "None"]
Null == [type |-> "Null"]
Boolean(b) == [type |-> "Boolean", bool |-> b]
String(s) == [type |-> "String", str |-> s]

Abs(n) == IF n < 0 THEN 0 - n ELSE n

RECURSIVE GCD(_, _)
GCD(a, b) == IF b = 0 THEN a ELSE GCD(b, a % b)

\* the Number n/d (d # 0) in lowest terms with a positive denominator
Number(n, d) ==
    LET g == GCD(Abs(n), Abs(d))
        s == IF d < 0 THEN 0 - 1 ELSE 1
    IN  [type |-> "Number", num |-> (s * n) \div g, den |-> Abs(d) \div g]

IsNumber(v) == v.type = "Number"
IsString(v) == v.type = "String"

NumAdd(x, y) == Number(x.num * y.den + y.num * x.den, x.den * y.den)
NumSub(x, y) == Number(x.num * y.den - y.num * x.den, x.den * y.den)
NumMul(x, y) == Number(x.num * y.num, x.den * y.den)
NumDiv(x, y) == Number(x.num * y.den, x.den * y.num)
NumNeg(x) == Number(0 - x.num, x.den)
NumIsZero(x) == x.num = 0
NumGreater(x, y) == x.num * y.den > y.num * x.den
NumGreaterEqual(x, y) == x.num * y.den >= y.num * x.den
NumLess(x, y) == x.num * y.den < y.num * x.den
NumLessEqual(x, y) == x.num * y.den <= y.num * x.den

\* format!("{}{}", x, y)
Concat(x, y) == x \o y

\* the values the model follows
Representable(v) ==
    CASE IsNumber(v) -> Abs(v.num) <= MaxNum /\ v.den <= MaxNum
      [] IsString(v) -> Len(v.str) <= MaxStrLen
      [] OTHER -> TRUE

\* structural equality of two Values: the same variant and the same content
value_equal(a, b) ==
    CASE a.type # b.type -> FALSE
      [] a.type = "Number" -> a.num = b.num /\ a.den = b.den
      [] a.type = "Boolean" -> a.bool = b.bool
      [] a.type = "String" -> a.str = b.str
      [] OTHER -> TRUE

\* is_falsey with the numeric zero taken as falsey too
is_falsey_zero(value) ==
    CASE value.type = "Boolean" -> ~value.bool
      [] value.type = "Null" -> TRUE
      [] value.type = "Number" -> value.num = 0
      [] OTHER -> FALSE

is_falsey(value) ==
    CASE value.type = "Boolean" -> ~value.bool
      [] value.type = "Null" -> TRUE
      [] OTHER -> FALSE

----------------------------------------------------------------------------
(* Chunk *)

Pool == << Number(0, 1), Number(1, 1), Number(2, 1), String("a"), String("b") >>

\* the names a global can have: the String constants of the pool
Names == { Pool[i].str : i \in { j \in DOMAIN Pool : IsString(Pool[j]) } }

\* index operands: every position of the pool and one beyond it (0-based)
ConstIndex == 0 .. Len(Pool)

Op0(name) == [op |-> name]
Op1(name, arg) == [op |-> name, arg |-> arg]

NoInstr == Op0("none")

Literals == { Op1("Constant", i) : i \in ConstIndex }
                \cup { Op0("True"), Op0("False"), Op0("Null") }

ExprInstr == Literals \cup { Op0(o) : o \in
    { "Not", "Negate", "Equal", "NotEqual", "Greater", "GreaterEqual", "Less",
      "LessEqual", "Add", "Subtract", "Multiply", "Divide" } }

LocalInstr == { Op0("True"), Op0("False"), Op0("Null"), Op0("Pop") }
                \cup { Op1(o, s) : o \in { "GetLocal", "SetLocal" }, s \in 0 .. MaxSlot }

JumpInstr == { Op0("True"), Op0("False"), Op0("Null"), Op1("Constant", 0),
               Op1("Constant", 3), Op0("Not"), Op0("Pop"), Op1("DefineGlobal", 3) }
                \cup { Op1(o, n) : o \in { "JumpIfFalse", "Jump", "Loop" },
                                   n \in 0 .. MaxOffset }

\* offsets that carry self.pc += target beyond usize from a position of a chunk
WrapOffsets == { UsizeModulus - k : k \in 1 .. MaxForwardCode }

\* chunks without Loop: forward jumps by small offsets and by the largest ones
ForwardInstr == { Op0("True"), Op0("Null"), Op0("Pop") }
                 \cup { Op1(o, n) : o \in { "JumpIfFalse", "Jump" },
                                    n \in (0 .. MaxOffset) \cup WrapOffsets }

\* global-variable chunks: names "a" (constant 3) and "b" (constant 4), and
\* constant 0, a Number, where a name is expected
GlobalInstr == { Op0("True"), Op0("False"), Op0("Pop"), Op1("DefineGlobal", 0) }
                \cup { Op1(o, i) : o \in { "DefineGlobal", "GetGlobal", "SetGlobal" },
                                   i \in { 3, 4 } }

\* chunks with Return anywhere in them
ReturnInstr == { Op0("True"), Op0("False"), Op0("Not"), Op0("Pop"),
                 Op1("DefineGlobal", 3), Op0("Return") }

\* the inputs of a session: each defines or reads the global "a"
ReplInstr == { Op0("True"), Op0("False"), Op0("Pop"),
               Op1("DefineGlobal", 3), Op1("GetGlobal", 3) }

\* every instruction, each with operands of every kind of outcome: Number,
\* name and out-of-range constants, slots 0 and 1, offset 1
FrameInstr == { Op1("Constant", i) : i \in { 1, 3, Len(Pool) } }
              \cup { Op0(o) : o \in { "True", "False", "Null", "Pop", "Return",
                    "Not", "Negate", "Equal", "NotEqual", "Greater", "GreaterEqual",
                    "Less", "LessEqual", "Add", "Subtract", "Multiply", "Divide" } }
              \cup { Op1(o, i) : o \in { "DefineGlobal", "GetGlobal", "SetGlobal" },
                                 i \in { 0, 3, 4 } }
              \cup { Op1(o, s) : o \in { "GetLocal", "SetLocal" }, s \in { 0, 1 } }
              \cup { Op1(o, 1) : o \in { "JumpIfFalse", "Jump", "Loop" } }

\* the mappings a machine is created with: each name unbound or bound to true
GivenGlobals == [Names -> { None, Boolean(TRUE) }]

\* straight-line chunks of the three storing instructions
StoreInstr == { Op0("True"), Op0("False"), Op0("Pop"), Op1("DefineGlobal", 3),
                Op1("SetGlobal", 3), Op1("SetLocal", 0), Op1("SetLocal", 1) }

AllInstr == ExprInstr \cup LocalInstr \cup JumpInstr \cup { Op0("Return") }
                \cup { Op1(o, i) : o \in { "DefineGlobal", "GetGlobal", "SetGlobal" },
                                   i \in ConstIndex }

SeqsUpTo(S, n) == UNION { [1 .. k -> S] : k \in 0 .. n }

\* chunk.get(position): bounds-checked, 0-based
get(position) == IF position < Len(code) THEN code[position + 1] ELSE None

\* chunk.get_constant(index): bounds-checked, 0-based
get_constant(index) == IF index < Len(constants) THEN constants[index + 1] ELSE None

----------------------------------------------------------------------------
(* The machine *)

\* VirtualMachine::new on a chunk drawn from chunks
new(chunks) ==
    /\ code \in chunks
    /\ constants = Pool
    /\ pc = 0
    /\ stack = << >>
    /\ globals = [n \in Names |-> None]
    /\ result = "Running"
    /\ printed = << >>
    /\ executed = NoInstr
    /\ before = [pc |-> 0, stack |-> << >>, globals |-> [n \in Names |-> None]]
    /\ written = [n \in Names |-> None]
    /\ compiled = "Ok"
    /\ machines = 1

Init == new(SeqsUpTo(AllInstr, MaxCode))
InitExpr == new(SeqsUpTo(ExprInstr, MaxExprCode))
InitLocal == new(SeqsUpTo(LocalInstr, MaxLocalCode))
InitJump == new(SeqsUpTo(JumpInstr, MaxJumpCode))
InitGlobal == new(SeqsUpTo(GlobalInstr, MaxGlobalCode))
\* VirtualMachine::new_with_globals on any chunk with any of the mappings
InitFrame ==
    /\ code \in SeqsUpTo(FrameInstr, MaxFrameCode)
    /\ constants = Pool
    /\ pc = 0
    /\ stack = << >>
    /\ globals \in GivenGlobals
    /\ result = "Running"
    /\ printed = << >>
    /\ executed = NoInstr
    /\ before = [pc |-> 0, stack |-> << >>, globals |-> globals]
    /\ written = globals
    /\ compiled = "Ok"
    /\ machines = 1

InitStore == new(SeqsUpTo(StoreInstr, MaxStoreCode))
InitForward == new(SeqsUpTo(ForwardInstr, MaxForwardCode))
InitReturn == new(SeqsUpTo(ReturnInstr, MaxReturnCode))
InitRepl == new(SeqsUpTo(ReplInstr, MaxReplCode))

\* compile_and_run(input) before compiler.compile() is called: no machine
\* exists; code is what the compiler will have emitted for the input when it
\* returns, whole or partial
InitRun ==
    /\ code \in SeqsUpTo(ReturnInstr, MaxRunCode)
    /\ constants = Pool
    /\ pc = 0
    /\ stack = << >>
    /\ globals = [n \in Names |-> None]
    /\ result = "NotCalled"
    /\ printed = << >>
    /\ executed = NoInstr
    /\ before = [pc |-> 0, stack |-> << >>, globals |-> [n \in Names |-> None]]
    /\ written = [n \in Names |-> None]
    /\ compiled = "Pending"
    /\ machines = 0

\* the loop is running and chunk.get(pc) is an instruction with this tag
Fetched(name) == result = "Running" /\ get(pc) # None /\ get(pc).op = name

\* the operand of the fetched instruction
Operand == get(pc).arg

Snapshot == [pc |-> pc, stack |-> stack, globals |-> globals]

\* Vec::last and Vec::pop as Option and remainder
Last(s) == IF s = << >> THEN None ELSE s[Len(s)]
Rest(s) == IF s = << >> THEN s ELSE SubSeq(s, 1, Len(s) - 1)

\* the stores so far once the fetched instruction has succeeded: DefineGlobal
\* and SetGlobal store the value on top of the stack under the name they carry
Stored ==
    IF get(pc).op \in { "DefineGlobal", "SetGlobal" }
      THEN [written EXCEPT ![get_constant(Operand).str] = Last(stack)]
      ELSE written

\* the iteration ends and the loop goes on: pc, stack and globals as given
Continue(newpc, newstack, newglobals) ==
    /\ pc' = newpc
    /\ stack' = newstack
    /\ globals' = newglobals
    /\ executed' = get(pc)
    /\ before' = Snapshot
    /\ written' = Stored
    /\ UNCHANGED <<code, constants, result, printed, compiled, machines>>

\* return InterpretResult::RuntimeError, after self.pc += 1
Fail(newstack) ==
    /\ pc' = pc + 1
    /\ stack' = newstack
    /\ result' = "RuntimeError"
    /\ executed' = get(pc)
    /\ before' = Snapshot
    /\ UNCHANGED <<code, constants, globals, printed, written, compiled, machines>>

\* the thread panics (index out of bounds, arithmetic overflow), after self.pc += 1
Abort ==
    /\ pc' = pc + 1
    /\ result' = "Panic"
    /\ executed' = get(pc)
    /\ before' = Snapshot
    /\ UNCHANGED <<code, constants, stack, globals, printed, written, compiled, machines>>

\* self.stack.push(value)
Push(value) ==
    /\ Len(stack) < MaxStack
    /\ Continue(pc + 1, Append(stack, value), globals)

\* a - b and a + b on usize without overflow checks
WrappingSub(a, b) == (a - b) % UsizeModulus
WrappingAdd(a, b) == (a + b) % UsizeModulus

\* let Some(instruction) = chunk.get(pc) else { return InterpretResult::Ok }
\* a fetch that reports a position without an instruction as an error
FetchNoneAsError ==
    /\ result = "Running"
    /\ get(pc) = None
    /\ result' = "RuntimeError"
    /\ executed' = NoInstr
    /\ before' = Snapshot
    /\ UNCHANGED <<code, constants, pc, stack, globals, printed, written, compiled, machines>>

FetchNone ==
    /\ result = "Running"
    /\ get(pc) = None
    /\ result' = "Ok"
    /\ executed' = NoInstr
    /\ before' = Snapshot
    /\ UNCHANGED <<code, constants, pc, stack, globals, printed, written, compiled, machines>>

\* a Constant that moves the value out of the pool, leaving Null in its slot
OpConstantMoving ==
    /\ Fetched("Constant")
    /\ get_constant(Operand) # None
    /\ Len(stack) < MaxStack
    /\ constants' = [constants EXCEPT ![Operand + 1] = Null]
    /\ pc' = pc + 1
    /\ stack' = Append(stack, get_constant(Operand))
    /\ executed' = get(pc)
    /\ before' = Snapshot
    /\ UNCHANGED <<code, globals, result, printed, written, compiled, machines>>

OpConstant ==
    /\ Fetched("Constant")
    /\ LET constant == get_constant(Operand)
       IN  IF constant = None THEN Fail(stack) ELSE Push(constant)

OpTrue == Fetched("True") /\ Push(Boolean(TRUE))

OpFalse == Fetched("False") /\ Push(Boolean(FALSE))

OpNull == Fetched("Null") /\ Push(Null)

\* if let Some(value) = self.stack.last_mut(): Value::Boolean(is_falsey(value))
Not(value) == IF value = None THEN None ELSE Boolean(is_falsey(value))

OpNot ==
    /\ Fetched("Not")
    /\ LET value == Not(Last(stack))
       IN  IF value = None
             THEN Fail(stack)
             ELSE Continue(pc + 1, [stack EXCEPT ![Len(stack)] = value], globals)

\* (Some(Value::Number(first_value)), Some(Value::Number(second_value)))
BothNumbers(first_value, second_value) ==
    IsNumber(first_value) /\ IsNumber(second_value)

\* (Some(Value::String(first_value)), Some(Value::String(second_value)))
BothStrings(first_value, second_value) ==
    IsString(first_value) /\ IsString(second_value)

(* The match arms of the binary instructions on (first pop, second pop): the  *)
(* value the matching arm pushes, None for the arm that returns RuntimeError. *)

Equal(a, b) ==
    IF a # None /\ b # None THEN Boolean(value_equal(a, b)) ELSE None

\* NotEqual without the negation
NotEqualMissingNegation(a, b) ==
    IF a # None /\ b # None THEN Boolean(value_equal(a, b)) ELSE None

NotEqual(a, b) ==
    IF a # None /\ b # None THEN Boolean(~value_equal(a, b)) ELSE None

Greater(first_value, second_value) ==
    IF BothNumbers(first_value, second_value)
      THEN Boolean(NumGreater(second_value, first_value))
      ELSE None

GreaterEqual(first_value, second_value) ==
    IF BothNumbers(first_value, second_value)
      THEN Boolean(NumGreaterEqual(second_value, first_value))
      ELSE None

Less(first_value, second_value) ==
    IF BothNumbers(first_value, second_value)
      THEN Boolean(NumLess(second_value, first_value))
      ELSE None

LessEqual(first_value, second_value) ==
    IF BothNumbers(first_value, second_value)
      THEN Boolean(NumLessEqual(second_value, first_value))
      ELSE None

\* Add concatenating in pop order
AddReversed(first_value, second_value) ==
    CASE BothNumbers(first_value, second_value) ->
            NumAdd(first_value, second_value)
      [] BothStrings(first_value, second_value) ->
            String(Concat(first_value.str, second_value.str))
      [] OTHER -> None

\* Add taking a Number pushed before a String for the String
AddCoercing(first_value, second_value) ==
    CASE BothNumbers(first_value, second_value) ->
            NumAdd(first_value, second_value)
      [] BothStrings(first_value, second_value) ->
            String(Concat(second_value.str, first_value.str))
      [] IsString(first_value) /\ IsNumber(second_value) -> first_value
      [] OTHER -> None

Add(first_value, second_value) ==
    CASE BothNumbers(first_value, second_value) ->
            NumAdd(first_value, second_value)
      [] BothStrings(first_value, second_value) ->
            String(Concat(second_value.str, first_value.str))
      [] OTHER -> None

\* Subtract in pop order
SubtractSwapped(first_value, second_value) ==
    IF BothNumbers(first_value, second_value)
      THEN NumSub(first_value, second_value)
      ELSE None

Subtract(first_value, second_value) ==
    IF BothNumbers(first_value, second_value)
      THEN NumSub(second_value, first_value)
      ELSE None

Multiply(first_value, second_value) ==
    IF BothNumbers(first_value, second_value)
      THEN NumMul(first_value, second_value)
      ELSE None

\* Divide testing the left-hand operand for zero
DivideZeroLeft(first_value, second_value) ==
    IF BothNumbers(first_value, second_value)
      THEN IF NumIsZero(second_value)
             THEN None
             ELSE NumDiv(second_value, first_value)
      ELSE None

Divide(first_value, second_value) ==
    IF BothNumbers(first_value, second_value)
      THEN IF NumIsZero(first_value)
             THEN None
             ELSE NumDiv(second_value, first_value)
      ELSE None

\* if let Some(value) = self.stack.last_mut(): Value::Number(n) => -*n
Negate(value) == IF IsNumber(value) THEN NumNeg(value) ELSE None

\* match (self.stack.pop(), self.stack.pop()): the first and the second pop
first_pop == Last(stack)
second_pop == Last(Rest(stack))

\* A binary instruction: both pops are made, then the arm that matches pushes
\* its value, or returns RuntimeError (value is None).
Binary(value) ==
    LET popped == Rest(Rest(stack))
    IN  IF value = None
          THEN Fail(popped)
          ELSE /\ Representable(value)
               /\ Continue(pc + 1, Append(popped, value), globals)

OpEqual == Fetched("Equal") /\ Binary(Equal(first_pop, second_pop))
OpNotEqual == Fetched("NotEqual") /\ Binary(NotEqual(first_pop, second_pop))
OpGreater == Fetched("Greater") /\ Binary(Greater(first_pop, second_pop))
OpGreaterEqual == Fetched("GreaterEqual") /\ Binary(GreaterEqual(first_pop, second_pop))
OpLess == Fetched("Less") /\ Binary(Less(first_pop, second_pop))
OpLessEqual == Fetched("LessEqual") /\ Binary(LessEqual(first_pop, second_pop))
OpAdd == Fetched("Add") /\ Binary(Add(first_pop, second_pop))
OpSubtract == Fetched("Subtract") /\ Binary(Subtract(first_pop, second_pop))
OpMultiply == Fetched("Multiply") /\ Binary(Multiply(first_pop, second_pop))
OpDivide == Fetched("Divide") /\ Binary(Divide(first_pop, second_pop))

OpNegate ==
    /\ Fetched("Negate")
    /\ LET value == Negate(Last(stack))
       IN  IF value = None
             THEN Fail(stack)
             ELSE Continue(pc + 1, [stack EXCEPT ![Len(stack)] = value], globals)

\* a Pop that treats an empty stack as an error
OpPopChecked ==
    /\ Fetched("Pop")
    /\ IF stack = << >> THEN Fail(stack) ELSE Continue(pc + 1, Rest(stack), globals)

\* self.stack.pop(); the Option it returns is dropped
OpPop == Fetched("Pop") /\ Continue(pc + 1, Rest(stack), globals)

\* HashMap::insert that drops the key instead of binding it when it is new
globals_insert_existing(map, name, value) ==
    IF map[name] = None THEN map ELSE [map EXCEPT ![name] = value]

\* HashMap::insert that keeps the binding a key already has
globals_insert_first(map, name, value) ==
    IF map[name] = None THEN [map EXCEPT ![name] = value] ELSE map

\* an insert that drops every other binding
globals_insert_alone(map, name, value) ==
    [n \in Names |-> IF n = name THEN value ELSE None]

\* self.globals.insert(name.clone(), value): binds a new key, overwrites an old one
globals_insert(map, name, value) == [map EXCEPT ![name] = value]

\* HashMap::get that answers Null for a key it does not have
globals_get_or_null(name) == IF globals[name] = None THEN Null ELSE globals[name]

\* self.globals.get(name): None for a key the map does not have
globals_get(name) == globals[name]

\* a DefineGlobal that takes its value with pop()
DefineGlobalStackPopped == Rest(stack)

\* the stack DefineGlobal leaves: it reads the value with self.stack.last()
DefineGlobalStack == stack

OpDefineGlobal ==
    /\ Fetched("DefineGlobal")
    /\ LET name == get_constant(Operand)
           last == Last(stack)
       IN  IF IsString(name) /\ last # None
             THEN Continue(pc + 1, DefineGlobalStack, globals_insert(globals, name.str, last))
             ELSE Fail(stack)

OpGetGlobal ==
    /\ Fetched("GetGlobal")
    /\ LET name == get_constant(Operand)
       IN  IF ~IsString(name) THEN Fail(stack)
           ELSE IF globals_get(name.str) = None THEN Fail(stack)
           ELSE Push(globals_get(name.str))

\* a SetGlobal that reads its value with last() and leaves it on the stack
SetGlobalStackKept == stack

\* the stack SetGlobal leaves: it takes the value with self.stack.pop()
SetGlobalStack == Rest(stack)

OpSetGlobal ==
    /\ Fetched("SetGlobal")
    /\ LET name == get_constant(Operand)
           value == Last(stack)
       IN  IF ~IsString(name) THEN Fail(stack)
           ELSE IF value = None THEN Fail(stack)
           ELSE Continue(pc + 1, SetGlobalStack, globals_insert(globals, name.str, value))

\* self.stack.get(*index - 1): the subtraction panics in a build with overflow
\* checks when index is 0 and wraps in a build without
OpGetLocal ==
    /\ Fetched("GetLocal")
    /\ \/ Operand < 1 /\ Abort
       \/ LET position == WrappingSub(Operand, 1)
          IN  IF position < Len(stack) THEN Push(stack[position + 1]) ELSE Fail(stack)

\* the position SetLocal(index) writes
SetLocalPosition(index) == index

\* self.stack[*index] = self.stack[self.stack.len() - 1].clone(): both the
\* read of an empty stack and the write outside the stack panic
OpSetLocal ==
    /\ Fetched("SetLocal")
    /\ LET position == SetLocalPosition(Operand)
       IN  IF stack = << >> \/ position >= Len(stack)
             THEN Abort
             ELSE Continue(pc + 1,
                           [stack EXCEPT ![position + 1] = stack[Len(stack)]],
                           globals)

\* JumpIfFalse jumping on a truthy value
JumpIfFalseOffsetInverted(value, target) == IF is_falsey(value) THEN 0 ELSE target

\* what JumpIfFalse(target) adds to the program counter on reading value
JumpIfFalseOffset(value, target) == IF is_falsey(value) THEN target ELSE 0

\* self.stack[self.stack.len() - 1] panics on an empty stack; self.pc += target
\* beyond usize panics in a build with overflow checks and wraps in one without
OpJumpIfFalse ==
    /\ Fetched("JumpIfFalse")
    /\ IF stack = << >>
         THEN Abort
         ELSE LET offset == JumpIfFalseOffset(Last(stack), Operand)
              IN  \/ pc + 1 + offset >= UsizeModulus /\ Abort
                  \/ Continue(WrappingAdd(pc + 1, offset), stack, globals)

\* what Jump(target) adds to the program counter, after self.pc += 1
JumpOffset(target) == target

OpJump ==
    /\ Fetched("Jump")
    /\ \/ pc + 1 + JumpOffset(Operand) >= UsizeModulus /\ Abort
       \/ Continue(WrappingAdd(pc + 1, JumpOffset(Operand)), stack, globals)

\* Loop counting from the Loop instruction itself
LoopOffsetFromInstruction(target) == target + 1

\* what Loop(target) subtracts from the program counter, after self.pc += 1
LoopOffset(target) == target

\* self.pc -= *target: below zero the subtraction panics in a build with
\* overflow checks and wraps in a build without
OpLoop ==
    /\ Fetched("Loop")
    /\ \/ LoopOffset(Operand) > pc + 1 /\ Abort
       \/ Continue(WrappingSub(pc + 1, LoopOffset(Operand)), stack, globals)

\* a Return that pops and prints but lets the loop go on
OpReturnContinuing ==
    /\ Fetched("Return")
    /\ pc' = pc + 1
    /\ stack' = Rest(stack)
    /\ printed' = Append(printed, IF stack = << >> THEN Null ELSE Last(stack))
    /\ executed' = get(pc)
    /\ before' = Snapshot
    /\ UNCHANGED <<code, constants, globals, result, written, compiled, machines>>

\* println!("{}", self.stack.pop().unwrap_or(Value::Null)); return Ok
OpReturn ==
    /\ Fetched("Return")
    /\ pc' = pc + 1
    /\ stack' = Rest(stack)
    /\ printed' = Append(printed, IF stack = << >> THEN Null ELSE Last(stack))
    /\ result' = "Ok"
    /\ executed' = get(pc)
    /\ before' = Snapshot
    /\ UNCHANGED <<code, constants, globals, written, compiled, machines>>

----------------------------------------------------------------------------
(* compile_and_run *)

\* compiler.compile(): for this model any input may compile or fail
Compile ==
    /\ compiled = "Pending"
    /\ compiled' \in { "Ok", "CompileError" }
    /\ UNCHANGED <<code, constants, pc, stack, globals, result, printed, executed,
                   before, written, machines>>

\* a test of the compiler's answer that never sees a failure
CompileFailedNever == FALSE

\* matches!(compiler.compile(), InterpretResult::CompileError)
CompileFailed == compiled = "CompileError"

\* the diagnostics are printed, first their number, and compile_and_run returns
ReportErrors ==
    /\ CompileFailed
    /\ printed = << >>
    /\ printed' = << [type |-> "Diagnostic"] >>
    /\ UNCHANGED <<code, constants, pc, stack, globals, result, executed, before,
                   written, compiled, machines>>

\* let mut vm = VirtualMachine::new(&mut compiler); interpret is called on it
NewMachine ==
    /\ compiled # "Pending"
    /\ ~CompileFailed
    /\ machines = 0
    /\ machines' = 1
    /\ pc' = 0
    /\ stack' = << >>
    /\ globals' = [n \in Names |-> None]
    /\ result' = "Running"
    /\ UNCHANGED <<code, constants, printed, executed, before, written, compiled>>

----------------------------------------------------------------------------
(* A session: one machine per input, the globals handed from each to the next *)

\* a constructor that ignores the mapping it is given, as new does
FreshGlobals(given) == [n \in Names |-> None]

\* the globals field of new_with_globals: the mapping passed in, moved
ExistingGlobals(given) == given

\* VirtualMachine::new_with_globals(compiler, globals) on a freshly compiled chunk
new_with_globals(chunks, given) ==
    /\ code' \in chunks
    /\ constants' = Pool
    /\ pc' = 0
    /\ stack' = << >>
    /\ globals' = ExistingGlobals(given)
    /\ result' = "Running"
    /\ machines' = machines + 1
    /\ executed' = Op0("new_with_globals")
    /\ before' = Snapshot
    /\ UNCHANGED <<printed, written, compiled>>

\* the caller takes the globals of the machine whose interpret has returned
\* and gives them to the machine for the next input
NewWithGlobals ==
    /\ result \in { "Ok", "RuntimeError" }
    /\ machines < MaxMachines
    /\ new_with_globals(SeqsUpTo(ReplInstr, MaxReplCode), globals)

----------------------------------------------------------------------------
(* Specifications *)

NextExpr ==
    \/ FetchNone
    \/ OpConstant
    \/ OpTrue
    \/ OpFalse
    \/ OpNull
    \/ OpNot
    \/ OpNegate
    \/ OpEqual
    \/ OpNotEqual
    \/ OpGreater
    \/ OpGreaterEqual
    \/ OpLess
    \/ OpLessEqual
    \/ OpAdd
    \/ OpSubtract
    \/ OpMultiply
    \/ OpDivide

NextLocal ==
    \/ FetchNone
    \/ OpTrue
    \/ OpFalse
    \/ OpNull
    \/ OpPop
    \/ OpGetLocal
    \/ OpSetLocal

NextJump ==
    \/ FetchNone
    \/ OpConstant
    \/ OpTrue
    \/ OpFalse
    \/ OpNull
    \/ OpNot
    \/ OpPop
    \/ OpDefineGlobal
    \/ OpJumpIfFalse
    \/ OpJump
    \/ OpLoop

NextGlobal ==
    \/ FetchNone
    \/ OpTrue
    \/ OpFalse
    \/ OpPop
    \/ OpDefineGlobal
    \/ OpGetGlobal
    \/ OpSetGlobal

NextReturn ==
    \/ FetchNone
    \/ OpTrue
    \/ OpFalse
    \/ OpNot
    \/ OpPop
    \/ OpDefineGlobal
    \/ OpReturn

NextForward ==
    \/ FetchNone
    \/ OpTrue
    \/ OpNull
    \/ OpPop
    \/ OpJumpIfFalse
    \/ OpJump

NextStore ==
    \/ FetchNone
    \/ OpTrue
    \/ OpFalse
    \/ OpPop
    \/ OpDefineGlobal
    \/ OpSetGlobal
    \/ OpSetLocal

NextRun ==
    \/ Compile
    \/ ReportErrors
    \/ NewMachine
    \/ NextReturn

NextRepl ==
    \/ FetchNone
    \/ OpTrue
    \/ OpFalse
    \/ OpPop
    \/ OpDefineGlobal
    \/ OpGetGlobal
    \/ NewWithGlobals

Next ==
    \/ NextExpr
    \/ OpPop
    \/ OpDefineGlobal
    \/ OpGetGlobal
    \/ OpSetGlobal
    \/ OpGetLocal
    \/ OpSetLocal
    \/ OpJumpIfFalse
    \/ OpJump
    \/ OpLoop
    \/ OpReturn

\* chunks over the whole instruction set
Spec == Init /\ [][Next]_vars
\* expression chunks: literals, unary and binary operators
SpecExpr == InitExpr /\ [][NextExpr]_vars
\* local-variable chunks: literals, Pop, GetLocal, SetLocal
SpecLocal == InitLocal /\ [][NextLocal]_vars
\* control-flow chunks: literals, Not, Pop, DefineGlobal, JumpIfFalse, Jump, Loop
SpecJump == InitJump /\ [][NextJump]_vars
\* global-variable chunks: True, False, Pop, DefineGlobal, GetGlobal, SetGlobal
SpecGlobal == InitGlobal /\ [][NextGlobal]_vars
\* chunks with Return: True, False, Not, Pop, DefineGlobal, Return
SpecReturn == InitReturn /\ [][NextReturn]_vars
\* compile_and_run: compile, then report the errors or build a machine and run it
SpecRun == InitRun /\ [][NextRun]_vars
\* storing instructions: True, False, Pop, DefineGlobal, SetGlobal, SetLocal
SpecStore == InitStore /\ [][NextStore]_vars
\* every instruction, on a machine created with globals already in place
SpecFrame == InitFrame /\ [][Next]_vars
\* chunks without Loop; the loop of interpret never pauses, so a step that can
\* be taken is taken
SpecForward == InitForward /\ [][NextForward]_vars /\ WF_vars(NextForward)
\* a session of up to MaxMachines machines, each created with the globals of the last
SpecRepl == InitRepl /\ [][NextRepl]_vars

----------------------------------------------------------------------------
(* Properties.  They read the history variables: executed is the instruction *)
(* the last iteration dispatched, before is the machine when it was fetched. *)

\* the operands of a binary instruction in source order: Left was pushed
\* before Right, so Right is popped first
Right == Last(before.stack)
Left == Last(Rest(before.stack))
BelowOperands == Rest(Rest(before.stack))

Ran(name) == executed.op = name

\* a op b for the instructions whose operand order matters
SourceResult(op, a, b) ==
    CASE op = "Subtract" -> NumSub(a, b)
      [] op = "Divide" -> NumDiv(a, b)
      [] op = "Greater" -> Boolean(NumGreater(a, b))
      [] op = "GreaterEqual" -> Boolean(NumGreaterEqual(a, b))
      [] op = "Less" -> Boolean(NumLess(a, b))
      [] op = "LessEqual" -> Boolean(NumLessEqual(a, b))

OrderedOps == { "Subtract", "Divide", "Greater", "GreaterEqual", "Less", "LessEqual" }

\* C1: Subtract, Divide, Greater, GreaterEqual, Less and LessEqual on two
\* Numbers push (second popped) op (first popped): with a pushed before b the
\* stack loses both operands and gains a op b, one element shorter in all
\* (Divide by a zero b pushes nothing).
C1_OperandOrder ==
    (/\ executed.op \in OrderedOps
     /\ IsNumber(Left) /\ IsNumber(Right)
     /\ ~(Ran("Divide") /\ NumIsZero(Right)))
    => /\ result = "Running"
       /\ stack = Append(BelowOperands, SourceResult(executed.op, Left, Right))
       /\ Len(stack) = Len(before.stack) - 1

\* 1 - 2 has run: the result is -1, not 1
C1_Witness ==
    /\ Ran("Subtract")
    /\ before.stack = << Number(1, 1), Number(2, 1) >>
    /\ stack = << Number(0 - 1, 1) >>

\* C6: Divide on two Numbers with a zero right-hand operand (the first popped)
\* returns RuntimeError and pushes nothing; with a non-zero right-hand operand,
\* a zero left-hand one included, it pushes the quotient.
C6_DivideByZero ==
    (Ran("Divide") /\ IsNumber(Left) /\ IsNumber(Right))
    => IF NumIsZero(Right)
         THEN result = "RuntimeError" /\ stack = BelowOperands
         ELSE result = "Running" /\ stack = Append(BelowOperands, NumDiv(Left, Right))

\* 2 / 0 has run
C6_Witness ==
    /\ Ran("Divide")
    /\ before.stack = << Number(2, 1), Number(0, 1) >>
    /\ result = "RuntimeError"
    /\ stack = << >>

NumericOps ==
    { "Greater", "GreaterEqual", "Less", "LessEqual", "Subtract", "Multiply", "Divide" }

\* C7: the relational and arithmetic instructions return RuntimeError unless
\* both operands are Numbers, Add unless they are two Numbers or two Strings,
\* Negate unless the stack top is a Number: no other pair of variants ever
\* produces a result.
C7_OperandTypes ==
    /\ (executed.op \in NumericOps /\ ~(IsNumber(Left) /\ IsNumber(Right)))
         => result = "RuntimeError"
    /\ (/\ Ran("Add")
        /\ ~(IsNumber(Left) /\ IsNumber(Right))
        /\ ~(IsString(Left) /\ IsString(Right)))
         => result = "RuntimeError"
    /\ (Ran("Negate") /\ ~IsNumber(Right)) => result = "RuntimeError"

\* 1 + "a" has run
C7_Witness ==
    /\ Ran("Add")
    /\ before.stack = << Number(1, 1), String("a") >>
    /\ result = "RuntimeError"

\* C8: Add on two Strings pushes the concatenation in source order, s pushed
\* before t gives s followed by t; Add on two Numbers pushes their sum.
C8_AddOrder ==
    /\ (Ran("Add") /\ IsString(Left) /\ IsString(Right))
         => /\ result = "Running"
            /\ stack = Append(BelowOperands, String(Left.str \o Right.str))
    /\ (Ran("Add") /\ IsNumber(Left) /\ IsNumber(Right))
         => /\ result = "Running"
            /\ stack = Append(BelowOperands, NumAdd(Left, Right))

\* "a" + "b" has run: the result is "ab"
C8_Witness ==
    /\ Ran("Add")
    /\ before.stack = << String("a"), String("b") >>
    /\ stack = << String("ab") >>

\* C9: Not replaces the stack top in place, the height unchanged, by
\* Boolean(true) exactly when the top was Boolean(false) or Null and by
\* Boolean(false) for every other value, every Number and String included.
C9_Not ==
    (Ran("Not") /\ before.stack # << >>)
    => /\ result = "Running"
       /\ Len(stack) = Len(before.stack)
       /\ Rest(stack) = Rest(before.stack)
       /\ Last(stack) = Boolean(Right \in { Boolean(FALSE), Null })

\* !0 has run: the result is false
C9_Witness ==
    /\ Ran("Not")
    /\ before.stack = << Number(0, 1) >>
    /\ stack = << Boolean(FALSE) >>

\* C10: Equal and NotEqual accept any two Values, pop both and push one
\* Boolean: Equal pushes true only for two values of the same variant with
\* equal content, whichever was pushed first, and true for a value compared
\* with itself; NotEqual pushes the negation.
C10_Equality ==
    (executed.op \in { "Equal", "NotEqual" } /\ Len(before.stack) >= 2)
    => /\ result = "Running"
       /\ Rest(stack) = BelowOperands
       /\ Last(stack) = Boolean((Left = Right) = Ran("Equal"))
       /\ (Left.type # Right.type) => Last(stack) = Boolean(Ran("NotEqual"))

\* "a" != 1 has run: the result is true
C10_Witness ==
    /\ Ran("NotEqual")
    /\ before.stack = << String("a"), Number(1, 1) >>
    /\ stack = << Boolean(TRUE) >>

BinaryOps == NumericOps \cup { "Add", "Equal", "NotEqual" }

\* the executed instruction needed a stack element, a stack position or a
\* constant that the machine did not have
MissingOperand ==
    \/ /\ executed.op \in { "Not", "Negate", "DefineGlobal", "SetGlobal", "JumpIfFalse" }
       /\ before.stack = << >>
    \/ executed.op \in BinaryOps /\ Len(before.stack) < 2
    \/ Ran("GetLocal") /\ (executed.arg < 1 \/ executed.arg > Len(before.stack))
    \/ Ran("SetLocal") /\ (before.stack = << >> \/ executed.arg > Len(before.stack))
    \/ /\ executed.op \in { "Constant", "DefineGlobal", "GetGlobal", "SetGlobal" }
       /\ executed.arg >= Len(constants)

\* C2: an instruction that needs a stack element, a stack position or a
\* constant that does not exist ends interpret with RuntimeError: no panic, no
\* next instruction.
C2_MissingOperandIsRuntimeError == MissingOperand => result = "RuntimeError"

\* C3: SetLocal(s) and GetLocal(s) address stack position s-1: SetLocal(s) for a
\* slot s >= 1 inside the stack copies the stack top there and changes nothing
\* else, and GetLocal(s) right after SetLocal(s) pushes the value just written.
C3_SameSlot ==
    /\ (Ran("SetLocal") /\ executed.arg \in 1 .. Len(before.stack))
         => /\ result = "Running"
            /\ stack = [before.stack EXCEPT ![executed.arg] = Last(before.stack)]
    /\ (/\ Ran("GetLocal") /\ result = "Running"
        /\ executed.arg >= 1
        /\ before.pc >= 1
        /\ code[before.pc] = Op1("SetLocal", executed.arg))
         => Last(stack) = Last(before.stack)

\* the instruction at a position of the chunk, NoInstr beyond its end
InstrAt(position) == IF position < Len(code) THEN code[position + 1] ELSE NoInstr

\* what the claims expect JumpIfFalse to add on top of the advance by one
Skipped == IF Right \in { Boolean(FALSE), Null } THEN executed.arg ELSE 0

C4_Effect ==
    /\ Ran("JumpIfFalse") => stack = before.stack
    /\ (Ran("JumpIfFalse") /\ before.stack # << >>)
         => result = "Running" /\ pc = before.pc + 1 + Skipped

C4_NextFetch ==
    (Ran("JumpIfFalse") /\ result = "Running")
    => executed' = InstrAt(before.pc + 1 + Skipped)

\* C4: JumpIfFalse(N) at position p never changes the stack; on a falsey top the
\* next instruction fetched is the one at p+1+N, the N instructions of the body
\* skipped, and on a truthy top it is the one at p+1.
C4_JumpIfFalse == []C4_Effect /\ [][C4_NextFetch]_vars

\* JumpIfFalse(1) has read Null with an instruction after it: that one is skipped
C4_Witness ==
    /\ Ran("JumpIfFalse")
    /\ executed.arg = 1
    /\ before.stack = << Null >>
    /\ InstrAt(before.pc + 1) # NoInstr
    /\ pc = before.pc + 2
    /\ result = "Running"

C5_Frame == stack = before.stack /\ globals = before.globals

NameConstant == get_constant(executed.arg)
Name == NameConstant.str
RanOnName(op) == Ran(op) /\ IsString(NameConstant)

\* C11: DefineGlobal(index) with a String constant and a non-empty stack binds
\* the name to a copy of the stack top, whether the name was bound or not,
\* changes no other name and leaves the stack as it was (nothing is popped);
\* with a constant that is not a String it ends with RuntimeError and the
\* globals are unchanged.
C11_DefineGlobal ==
    /\ (RanOnName("DefineGlobal") /\ before.stack # << >>)
       => /\ result = "Running"
          /\ stack = before.stack
          /\ globals[Name] = Last(before.stack)
          /\ \A n \in Names \ { Name } : globals[n] = before.globals[n]
    /\ (Ran("DefineGlobal") /\ ~IsString(NameConstant))
       => /\ result = "RuntimeError"
          /\ globals = before.globals

\* let a = false; then a is defined again with true on top: the binding is
\* overwritten and both values are still on the stack
C11_Witness ==
    /\ RanOnName("DefineGlobal")
    /\ before.globals[Name] = Boolean(FALSE)
    /\ globals[Name] = Boolean(TRUE)
    /\ stack = << Boolean(FALSE), Boolean(TRUE) >>

\* C12: GetGlobal(index) on a name the globals do not hold ends interpret with
\* RuntimeError; nothing is pushed, and the stack and the globals are exactly
\* those before the instruction.
C12_GetUndefined ==
    (RanOnName("GetGlobal") /\ before.globals[Name] = None)
    => /\ result = "RuntimeError"
       /\ stack = before.stack
       /\ globals = before.globals

\* "b" is read while only "a" is defined, with a value on the stack
C12_Witness ==
    /\ RanOnName("GetGlobal")
    /\ Name = "b"
    /\ before.globals["a"] = Boolean(TRUE)
    /\ before.globals["b"] = None
    /\ before.stack = << Boolean(TRUE) >>
    /\ result = "RuntimeError"

\* C13: SetGlobal(index) on a name the globals do not hold is not an error:
\* with a value on the stack it binds the name to that value and execution
\* continues with the next instruction.
C13_SetUndefined ==
    (RanOnName("SetGlobal") /\ before.globals[Name] = None /\ before.stack # << >>)
    => /\ result = "Running"
       /\ globals[Name] = Last(before.stack)
       /\ pc = before.pc + 1

\* a = true with no let before it, and the instruction after it has run too
C13_Witness ==
    /\ code = << Op0("True"), Op1("SetGlobal", 3), Op0("False") >>
    /\ globals["a"] = Boolean(TRUE)
    /\ Ran("False")
    /\ result = "Running"

\* C14: the globals hold, for every name, the value stored by the most
\* recent successful DefineGlobal or SetGlobal on it (one binding per name, a
\* SetGlobal after a DefineGlobal overwrites it), and a GetGlobal that
\* succeeds pushes that value on top of the stack it found.
C14_LastStore ==
    /\ globals = written
    /\ (RanOnName("GetGlobal") /\ result = "Running")
       => /\ written[Name] # None
          /\ stack = Append(before.stack, written[Name])

\* let a = false, then a = true, then a is read: true is pushed
C14_Witness ==
    /\ code = << Op0("False"), Op1("DefineGlobal", 3), Op0("True"),
                 Op1("SetGlobal", 3), Op1("GetGlobal", 3) >>
    /\ Ran("GetGlobal")
    /\ stack = << Boolean(FALSE), Boolean(TRUE) >>

C15_Effect ==
    Ran("Return")
    => /\ result = "Ok"
       /\ stack = Rest(before.stack)
       /\ globals = before.globals
       /\ printed = << IF before.stack = << >> THEN Null ELSE Last(before.stack) >>

C15_NothingAfter == ~Ran("Return")

\* C15: Return ends interpret with Ok at once: it pops the stack top and
\* prints it (Null when the stack is empty, which is not an error), the stack
\* and the globals of the finished call are those at the Return less the
\* popped value, and no instruction is executed after a Return.
C15_Return == []C15_Effect /\ [][C15_NothingAfter]_vars

\* Return with two values on the stack and two instructions behind it: the
\* top is popped and printed, and the machine stays where the Return left it
C15_Witness ==
    /\ code = << Op0("True"), Op0("False"), Op0("Return"), Op0("Pop") >>
    /\ Ran("Return")
    /\ result = "Ok"
    /\ pc = 3
    /\ stack = << Boolean(TRUE) >>
    /\ printed = << Boolean(FALSE) >>

\* the program counter designates a position with no instruction
PastEnd == result = "Running" /\ pc >= Len(code)

C16_Returns == PastEnd => ENABLED FetchNone

C16_Untouched ==
    PastEnd => /\ result' = "Ok"
               /\ pc' = pc
               /\ stack' = stack
               /\ globals' = globals
               /\ printed' = printed

\* C16: whenever the program counter designates a position with no
\* instruction (the end of the chunk, an empty chunk, or beyond the end after
\* a forward Jump or JumpIfFalse), interpret returns Ok, and that last step
\* leaves the stack and the globals untouched.
C16_PastEnd == []C16_Returns /\ [][C16_Untouched]_vars

\* Jump(2) as the only instruction moves the counter to 3, two past the end,
\* and the next fetch has ended the call with Ok
C16_Witness ==
    /\ code = << Op1("Jump", 2) >>
    /\ executed = NoInstr
    /\ before.pc = 3
    /\ pc = 3
    /\ result = "Ok"

\* the instructions whose arm has a return of InterpretResult::RuntimeError
Fallible == { "Constant", "Not", "Negate", "DefineGlobal", "GetGlobal", "SetGlobal",
              "GetLocal" } \cup BinaryOps

\* the call has returned a value (a panic unwinds and returns none)
Completed == result \notin { "Running", "Panic" }

\* C17: a call of interpret that has completed has yielded Ok or
\* RuntimeError, never CompileError or anything else: Ok only through Return
\* or a fetch at a position with no instruction, RuntimeError only through an
\* instruction that can fail, which leaves the counter just after itself and
\* the globals as they were.
C17_Outcome ==
    /\ result # "CompileError"
    /\ Completed => result \in { "Ok", "RuntimeError" }
    /\ result = "Ok"
       => \/ Ran("Return")
          \/ executed = NoInstr /\ before.pc >= Len(code) /\ pc = before.pc
    /\ result = "RuntimeError"
       => /\ executed.op \in Fallible
          /\ pc = before.pc + 1
          /\ globals = before.globals

\* Negate has met a Boolean: the call has completed with RuntimeError
C17_Witness ==
    /\ code = << Op0("True"), Op0("Negate") >>
    /\ Ran("Negate")
    /\ Completed
    /\ result = "RuntimeError"

\* C19: no step of interpret modifies the chunk: whatever is executed and
\* however the call ends, the instruction sequence and the constant pool stay
\* those the machine was created with.
C19_ChunkUnchanged == [][code' = code /\ constants' = constants]_vars

\* a constant has been pushed and the call has ended: the chunk still holds
\* both instructions and the whole pool
C19_Witness ==
    /\ code = << Op1("Constant", 3), Op0("Return") >>
    /\ constants = Pool
    /\ printed = << String("a") >>
    /\ result = "Ok"

\* C18: in compile_and_run, once compilation has reported CompileError no
\* VirtualMachine is ever constructed and no instruction of the chunk emitted
\* so far is executed; a machine exists and interpret runs only after a
\* compilation that did not fail.
C18_NoMachineAfterCompileError ==
    /\ compiled = "CompileError"
       => /\ machines = 0
          /\ result = "NotCalled"
          /\ executed = NoInstr
          /\ pc = 0 /\ stack = << >> /\ globals = [n \in Names |-> None]
    /\ (machines > 0 \/ result # "NotCalled" \/ executed # NoInstr)
       => compiled = "Ok"

\* the compiler failed after emitting two instructions: the errors have been
\* printed, there is no machine and nothing has run
C18_Witness ==
    /\ code = << Op0("True"), Op0("Return") >>
    /\ compiled = "CompileError"
    /\ printed = << [type |-> "Diagnostic"] >>
    /\ machines = 0
    /\ executed = NoInstr

\* a machine that has not fetched yet, made by new / by new_with_globals
FreshFromNew == machines = 1 /\ executed = NoInstr /\ result = "Running"
FreshWithGlobals == Ran("new_with_globals")

\* C20: a machine created with new_with_globals starts at program counter 0
\* with an empty stack, whatever stack the machine before it ended with, and
\* with exactly the globals it was given, so that every name holds the value
\* last stored under it in any machine so far and a GetGlobal in a later
\* machine pushes it; a machine created with new starts with no globals.
C20_Handover ==
    /\ FreshWithGlobals
       => pc = 0 /\ stack = << >> /\ globals = before.globals
    /\ FreshFromNew
       => pc = 0 /\ stack = << >> /\ globals = [n \in Names |-> None]
    /\ globals = written
    /\ (RanOnName("GetGlobal") /\ before.globals[Name] # None)
       => result = "Running" /\ stack = Append(before.stack, written[Name])

\* the second machine reads "a", which only the first defined: true is
\* pushed on a stack that holds nothing of the first machine's
C20_Witness ==
    /\ machines = 2
    /\ code = << Op1("GetGlobal", 3) >>
    /\ Ran("GetGlobal")
    /\ before.stack = << >>
    /\ stack = << Boolean(TRUE) >>

\* the chunk contains no Loop instruction
NoLoop == \A i \in 1 .. Len(code) : code[i].op # "Loop"

\* an instruction is executed and the program counter ends beyond where it was
C21_PcIncreases == (NoLoop /\ executed' # NoInstr) => pc' > pc

\* C21: for a chunk that contains no Loop, the program counter strictly
\* increases at every executed instruction, and interpret returns Ok or
\* RuntimeError (after at most as many instructions as the chunk contains).
C21_NoLoopTerminates ==
    /\ [][C21_PcIncreases]_vars
    /\ NoLoop => <>(result \in { "Ok", "RuntimeError" })

\* the two instructions that write to the globals
GlobalStores == { "DefineGlobal", "SetGlobal" }

\* C22: the globals are changed only by DefineGlobal and SetGlobal, and
\* only at the name their constant designates; every other instruction, and
\* the fetch that finds none, leaves the whole mapping as it was whether it
\* succeeds or fails, and a name that was bound is still bound afterwards.
C22_GlobalsFrame ==
    /\ executed.op \notin GlobalStores => globals = before.globals
    /\ executed.op \in GlobalStores
       => IF IsString(NameConstant)
            THEN \A n \in Names \ { Name } : globals[n] = before.globals[n]
            ELSE globals = before.globals
    /\ \A n \in Names : before.globals[n] # None => globals[n] # None

\* b = true on a machine that already holds "a": only "b" is new
C22_Witness ==
    /\ RanOnName("SetGlobal")
    /\ Name = "b"
    /\ before.globals["a"] = Boolean(TRUE)
    /\ before.globals["b"] = None
    /\ globals["a"] = Boolean(TRUE)
    /\ globals["b"] = Boolean(TRUE)

\* the instructions that read or pop a stack element and have no default for it
NeedsElement == { "Not", "Negate", "DefineGlobal", "SetGlobal", "GetLocal", "SetLocal",
                  "JumpIfFalse" } \cup BinaryOps

\* C23: Pop never fails: on an empty stack the stack stays empty, on a
\* non-empty one exactly the top element goes, and in both cases execution
\* continues at the next instruction with the globals as they were; every
\* other instruction that needs a stack element ends the call on an empty
\* stack.
C23_Pop ==
    /\ Ran("Pop")
       => /\ result = "Running"
          /\ pc = before.pc + 1
          /\ globals = before.globals
          /\ IF before.stack = << >>
               THEN stack = << >>
               ELSE stack = SubSeq(before.stack, 1, Len(before.stack) - 1)
    /\ (executed.op \in NeedsElement /\ before.stack = << >>)
       => result \in { "RuntimeError", "Panic" }

\* Pop as the first instruction of a chunk of two: the stack was and is
\* empty and the machine is about to fetch the second
C23_Witness ==
    /\ Ran("Pop")
    /\ before.stack = << >>
    /\ stack = << >>
    /\ result = "Running"
    /\ pc = 1
    /\ Len(code) = 2

\* a stack without its top element / without its top two
ButLast(s) == SubSeq(s, 1, Len(s) - 1)
ButLastTwo(s) == SubSeq(s, 1, Len(s) - 2)

C24_Heights ==
    /\ (RanOnName("SetGlobal") /\ before.stack # << >>)
       => /\ result = "Running"
          /\ stack = ButLast(before.stack)
          /\ globals[Name] = Last(before.stack)
    /\ (RanOnName("DefineGlobal") /\ before.stack # << >>)
       => /\ result = "Running"
          /\ Len(stack) = Len(before.stack)
          /\ Last(stack) = globals[Name]
    /\ (Ran("SetLocal") /\ result = "Running")
       => /\ Len(stack) = Len(before.stack)
          /\ Last(stack) = Last(before.stack)
          /\ stack[SetLocalPosition(executed.arg) + 1] = Last(before.stack)

\* SetGlobal has just run and Pop is next: Pop takes the element that lay
\* under the assigned value, if there was one
C24_PopAfterSetGlobal ==
    (RanOnName("SetGlobal") /\ result = "Running" /\ InstrAt(pc).op = "Pop")
    => /\ stack' = IF Len(before.stack) >= 2 THEN ButLastTwo(before.stack) ELSE << >>
       /\ globals' = globals
       /\ result' = "Running"

\* C24: SetGlobal removes the assigned value from the stack (one element
\* fewer), DefineGlobal and SetLocal leave the assigned value on top (same
\* height); so a Pop right after SetGlobal removes the older element under
\* the assigned value, not the value.
C24_StoreEffects == []C24_Heights /\ [][C24_PopAfterSetGlobal]_vars

\* false, true, a = true, Pop: the Pop has removed false, the element pushed
\* before the assigned value
C24_Witness ==
    /\ code = << Op0("False"), Op0("True"), Op1("SetGlobal", 3), Op0("Pop") >>
    /\ Ran("Pop")
    /\ before.stack = << Boolean(FALSE) >>
    /\ stack = << >>
    /\ globals["a"] = Boolean(TRUE)

====
